---- MODULE Spec2Model ----
(***************************************************************************)
(* Session lifecycle of navigator: the SessionData mapping, the composed   *)
(* AbstractStorage.forgot operation and the per-request session            *)
(* middleware of navigator/auth/sessions/storages/abstract.py.             *)
(***************************************************************************)
EXTENDS Integers, Sequences, FiniteSets, TLC

(* ---------------------------------------------------------------------- *)
(* Bounds                                                                   *)
(* ---------------------------------------------------------------------- *)

\* number of operations the handler performs on the request before it ends
MaxHandlerSteps == 3

\* number of requests served by the application in one behaviour
MaxRequests == 2

\* number of operations performed on one SessionData object
MaxOps == 2

\* number of requests of one client in flight at the same time
NumFlights == 2

\* number of SessionData objects alive in one process
NumInstances == 2

\* number of dict objects the process creates, the initial ones included
MaxHeap == 6

(* ---------------------------------------------------------------------- *)
(* Values                                                                   *)
(* ---------------------------------------------------------------------- *)

\* Python's None, for integer-valued fields
None == -1

\* keys of the request context (navigator.conf) and the literal "session"
SESSION_KEY == "id"
SESSION_OBJECT == "nav_session_object"
SESSION_STORAGE == "nav_session_storage"
SESSION_LITERAL == "session"

RequestKeys == {SESSION_STORAGE, SESSION_OBJECT, SESSION_KEY, SESSION_LITERAL}

\* what a slot of the request context holds
Absent == "absent"
NoneValue == "None"
SessionRef == "SessionData"
StorageRef == "storage"
IdentityRef == "identity"

\* attribute keys and values a handler stores in a session
AttrKeys == {"user"}
AttrValues == {1}

\* the mappings handed to SessionData as data
EmptyData == << >>
DataInputs == {EmptyData} \cup [AttrKeys -> AttrValues]

(* ---------------------------------------------------------------------- *)
(* SessionData                                                              *)
(* ---------------------------------------------------------------------- *)

Truthy(v) == v # None /\ v # 0

DataGet(data, key) == IF key \in DOMAIN data THEN data[key] ELSE None

\* dict.update: entries of data override those of base
DictUpdate(base, data) ==
    [k \in (DOMAIN base) \cup (DOMAIN data) |->
        IF k \in DOMAIN data THEN data[k] ELSE base[k]]

\* the expiry test of SessionData.__init__: age is now - created when data
\* holds a truthy created, now otherwise; a max_age of 0 is not None
Expired(hasData, data, max_age, now) ==
    LET created == IF hasData /\ DOMAIN data # {}
                   THEN DataGet(data, "created") ELSE None
        age     == IF Truthy(created) THEN now - created ELSE now
    IN  max_age # None /\ age > max_age

\* an __init__ that starts an expired session over: no attributes, new
SessionDataInitExpiring(hasData, data, new, identity, max_age, now, uuid) ==
    LET nonEmpty == hasData /\ DOMAIN data # {}
        expired  == Expired(hasData, data, max_age, now)
        ident0   == IF nonEmpty THEN DataGet(data, SESSION_KEY) ELSE identity
        ident    == IF Truthy(ident0) THEN ident0 ELSE uuid
        isNew    == IF expired THEN TRUE
                    ELSE IF ~hasData \/ DOMAIN data # {} THEN new ELSE TRUE
        created  == IF nonEmpty THEN DataGet(data, "created") ELSE None
    IN  [_changed  |-> FALSE,
         _data     |-> IF hasData /\ ~expired
                       THEN DictUpdate(EmptyData, data) ELSE EmptyData,
         _identity |-> ident,
         _new      |-> isNew,
         _max_age  |-> IF Truthy(max_age) THEN max_age ELSE None,
         _created  |-> IF isNew \/ created = None THEN now ELSE created]

\* SessionData.__init__; hasData is FALSE when data is None, now is
\* int(time.time()) and uuid the value uuid.uuid4().hex yields
SessionDataInit(hasData, data, new, identity, max_age, now, uuid) ==
    LET nonEmpty == hasData /\ DOMAIN data # {}
        ident0   == IF nonEmpty THEN DataGet(data, SESSION_KEY) ELSE identity
        ident    == IF Truthy(ident0) THEN ident0 ELSE uuid
        isNew    == IF ~hasData \/ DOMAIN data # {} THEN new ELSE TRUE
        created  == IF nonEmpty THEN DataGet(data, "created") ELSE None
    IN  [_changed  |-> FALSE,
         _data     |-> IF hasData THEN DictUpdate(EmptyData, data) ELSE EmptyData,
         _identity |-> ident,
         _new      |-> isNew,
         _max_age  |-> IF Truthy(max_age) THEN max_age ELSE None,
         _created  |-> IF isNew \/ created = None THEN now ELSE created]

\* SessionData.is_changed
is_changed(s) == s._changed

\* SessionData.changed
changed(s) == [s EXCEPT !._changed = TRUE]

\* SessionData.empty
empty(s) == DOMAIN s._data = {}

\* an invalidate that empties the attributes without marking the change
SessionInvalidateUnmarked(s) == [s EXCEPT !._data = EmptyData]

\* an invalidate that takes the emptied session for a clean one
SessionInvalidateReset(s) == [s EXCEPT !._changed = FALSE, !._data = EmptyData]

\* an invalidate that flips the flag instead of setting it
SessionInvalidateToggling(s) ==
    [s EXCEPT !._changed = ~s._changed, !._data = EmptyData]

\* SessionData.invalidate
SessionInvalidate(s) == [s EXCEPT !._changed = TRUE, !._data = EmptyData]

\* a __setitem__ that stores the value without marking the change
SetItemUnmarked(s, key, value) ==
    [s EXCEPT !._data = DictUpdate(s._data, [k \in {key} |-> value])]

\* a __setitem__ that keeps the identity in step with the identity key
SetItemSyncIdentity(s, key, value) ==
    [s EXCEPT !._data = DictUpdate(s._data, [k \in {key} |-> value]),
              !._changed = TRUE,
              !._identity = IF key = SESSION_KEY THEN value ELSE s._identity]

\* SessionData.__setitem__
SetItem(s, key, value) ==
    [s EXCEPT !._data = DictUpdate(s._data, [k \in {key} |-> value]),
              !._changed = TRUE]

\* SessionData.__delitem__: KeyError (s unchanged) when key is missing
DelItemRaises(s, key) == key \notin DOMAIN s._data

\* a __delitem__ that marks the change before it deletes
DelItemMarkFirst(s, key) ==
    IF DelItemRaises(s, key) THEN [s EXCEPT !._changed = TRUE]
    ELSE [s EXCEPT !._data = [k \in (DOMAIN s._data) \ {key} |-> s._data[k]],
                   !._changed = TRUE]

DelItem(s, key) ==
    IF DelItemRaises(s, key) THEN s
    ELSE [s EXCEPT !._data = [k \in (DOMAIN s._data) \ {key} |-> s._data[k]],
                   !._changed = TRUE]

(* ---------------------------------------------------------------------- *)
(* State                                                                    *)
(* ---------------------------------------------------------------------- *)

VARIABLES
    middlewares,    \* app.middlewares: the session middlewares installed
    pc,             \* position of the application / of the request in flight
    request,        \* the request context: key -> what the slot holds
    session,        \* the SessionData object of the request in flight
    response,       \* what the handler returned
    outcome,        \* how the middleware ended the request
    calls,          \* the calls made for the request in flight, in order
    steps,          \* operations the handler has performed
    served,         \* requests that entered the middleware
    backend,        \* the backend store: identity -> persisted attributes
    forgotResult,   \* how the last storage.forgot(request) call ended
    sd,             \* a SessionData object on its own, as a handler holds it
    args,           \* the arguments sd was constructed with
    before,         \* sd as it was before the last operation on it
    ops,            \* the operations performed on sd, in order
    flights,        \* concurrent requests: request -> its position and session
    saveOrder,      \* the requests whose save_session completed, in order
    heap,           \* the dict objects of the process: address -> mapping
    instances,      \* two SessionData objects; _data is an address of heap
    supplied,       \* the address of the data each instance was built from
    prior           \* heap and instances before the last operation, its actor

\* the variables of the middleware serving one request at a time
mwVars == <<middlewares, pc, request, session, response, outcome, calls,
            steps, served, forgotResult>>

\* the variables of a SessionData object on its own
dataVars == <<sd, args, before, ops>>

\* the variables of the concurrent requests
raceVars == <<flights, saveOrder>>

\* the variables of two SessionData objects and the dicts they refer to
aliasVars == <<heap, instances, supplied, prior>>

vars == <<mwVars, backend, dataVars, raceVars, aliasVars>>

NoSession == [_none |-> TRUE]
NoResponse == [kind |-> "none", prepared |-> FALSE, cookie |-> FALSE]

\* objects handed to session_middleware as storage
StorageObjects == {StorageRef, "not_a_storage"}

\* isinstance(storage, AbstractStorage)
IsAbstractStorage(obj) == obj = StorageRef

\* results a handler can return: web.Response, a streaming web.StreamResponse,
\* a web.WebSocketResponse, a web.HTTPException instance, or any other value
ResponseKinds == {"Response", "StreamResponse", "WebSocketResponse",
                  "HTTPException", "raw"}

\* exceptions a handler can end with
HandlerExceptions == {"HTTPException", "Exception", "CancelledError"}

EmptyRequest == [k \in RequestKeys |-> Absent]

\* no SessionData constructed yet
NoArgs == [_none |-> TRUE]

\* the requests in flight at the same time, and one that has not arrived
Flights == 1..NumFlights
IdleFlight == [pc |-> "idle", request |-> EmptyRequest, session |-> NoSession,
               loaded |-> EmptyData, response |-> NoResponse]

EmptyBackend == << >>

\* the identity uuid.uuid4().hex yields for the client of this model
ClientIdentity == 1

\* int(time.time()) while the request is served
Now == 5

\* addresses of the dicts that exist before any SessionData is built: the
\* class attribute SessionData._data, the dict of the default argument
\* data={}, and a mapping the caller built; NoAddress stands for data=None
NoAddress == 0
ClassData == 1
DefaultData == 2
CallerData == 3

\* what the caller's mapping holds
CallerMapping == [k \in AttrKeys |-> 1]

InitialHeap == <<EmptyData, EmptyData, CallerMapping>>

\* the SessionData objects of a process that holds several at a time
Instances == 1..NumInstances

\* no operation performed on an instance yet
NoPrior == [_none |-> TRUE]

Init ==
    /\ middlewares = << >>
    /\ pc = "setup"
    /\ request = EmptyRequest
    /\ session = NoSession
    /\ response = NoResponse
    /\ outcome = "none"
    /\ calls = << >>
    /\ steps = 0
    /\ served = 0
    /\ backend = EmptyBackend
    /\ forgotResult = "none"
    /\ sd = NoSession
    /\ args = NoArgs
    /\ before = NoSession
    /\ ops = << >>
    /\ flights = [r \in Flights |-> IdleFlight]
    /\ saveOrder = << >>
    /\ heap = InitialHeap
    /\ instances = [i \in Instances |-> NoSession]
    /\ supplied = [i \in Instances |-> NoAddress]
    /\ prior = NoPrior

(* ---------------------------------------------------------------------- *)
(* session_middleware: the factory                                          *)
(* ---------------------------------------------------------------------- *)

\* a factory without the isinstance check
session_middleware_unchecked(storage) == storage

\* session_middleware(app, storage): the middleware closure it returns, or
\* "RuntimeError" when storage is no AbstractStorage
session_middleware(storage) ==
    IF ~IsAbstractStorage(storage) THEN "RuntimeError"
    ELSE storage

\* app.middlewares.append(session_middleware(app, storage)), as
\* AbstractStorage.configure_session does with itself
configure_session(storage) ==
    /\ pc = "setup"
    /\ LET mw == session_middleware(storage)
       IN  IF mw = "RuntimeError"
           THEN /\ pc' = "aborted"
                /\ UNCHANGED middlewares
           ELSE /\ pc' = "idle"
                /\ middlewares' = Append(middlewares, mw)
    /\ UNCHANGED <<request, session, response, outcome, calls, steps, served,
                   backend, forgotResult>>
    /\ UNCHANGED <<dataVars, raceVars, aliasVars>>

(* ---------------------------------------------------------------------- *)
(* The abstract backend operations, as a storage backend performs them      *)
(* ---------------------------------------------------------------------- *)

OtherRef == "other_object"

\* load_session / new_session: the SessionData of the client, rebuilt from
\* the backend record when there is one, new (with data) otherwise
LoadedSession(store, data) ==
    IF ClientIdentity \in DOMAIN store
    THEN SessionDataInit(TRUE, store[ClientIdentity], FALSE, ClientIdentity,
                         None, Now, ClientIdentity)
    ELSE SessionDataInit(TRUE, data, TRUE, ClientIdentity, None, Now,
                         ClientIdentity)

\* get_session: the session of the request, loaded when the request has none
CurrentSession(s, store, data) ==
    IF s # NoSession THEN s ELSE LoadedSession(store, data)

\* the request context after a backend cached the session in the slots it
\* uses (cacheObj, cacheKey, cacheLit: whether it writes that slot)
CachedRequest(req, cacheObj, cacheKey, cacheLit) ==
    [k \in RequestKeys |->
        IF k = SESSION_OBJECT /\ cacheObj THEN SessionRef
        ELSE IF k = SESSION_KEY /\ cacheKey THEN IdentityRef
        ELSE IF k = SESSION_LITERAL /\ cacheLit THEN SessionRef
        ELSE req[k]]

\* save_session: the record of session.identity holds session's attributes
SavedBackend(store, s) ==
    [i \in (DOMAIN store) \cup {s._identity} |->
        IF i = s._identity THEN s._data ELSE store[i]]

\* invalidate: the record of session.identity is removed
InvalidatedBackend(store, s) ==
    [i \in (DOMAIN store) \ {s._identity} |-> store[i]]

(* ---------------------------------------------------------------------- *)
(* session_middleware.middleware, up to the handler                         *)
(* ---------------------------------------------------------------------- *)

\* a middleware that writes the storage under the wrong key
AttachStorageWrongKey(req, storage) == [req EXCEPT ![SESSION_OBJECT] = storage]

\* request[SESSION_STORAGE] = storage
AttachStorage(req, storage) == [req EXCEPT ![SESSION_STORAGE] = storage]

\* a request arrives: the middleware stamps the storage on the request and
\* awaits handler(request)
MiddlewareEnter ==
    /\ pc \in {"idle", "done"}
    /\ served < MaxRequests
    /\ Len(middlewares) > 0
    /\ request' = AttachStorage(EmptyRequest, middlewares[1])
    /\ pc' = "handler"
    /\ session' = NoSession
    /\ response' = NoResponse
    /\ outcome' = "pending"
    /\ calls' = <<"handler">>
    /\ steps' = 0
    /\ served' = served + 1
    /\ forgotResult' = "none"
    /\ UNCHANGED <<middlewares, backend>>
    /\ UNCHANGED <<dataVars, raceVars, aliasVars>>

(* ---------------------------------------------------------------------- *)
(* The handler: what the code the middleware awaits may do                  *)
(* ---------------------------------------------------------------------- *)

HandlerRunning == pc = "handler" /\ steps < MaxHandlerSteps

\* the handler asks the storage for the session (get_session, load_session
\* or new_session of a backend)
HandlerGetSession(data, cacheObj, cacheKey, cacheLit) ==
    /\ HandlerRunning
    /\ session' = CurrentSession(session, backend, data)
    /\ request' = CachedRequest(request, cacheObj, cacheKey, cacheLit)
    /\ calls' = Append(calls, "handler_get_session")
    /\ steps' = steps + 1
    /\ UNCHANGED <<middlewares, pc, response, outcome, served, backend,
                   forgotResult>>
    /\ UNCHANGED <<dataVars, raceVars, aliasVars>>

\* the handler stores something that is no SessionData under SESSION_OBJECT
HandlerSetObject(value) ==
    /\ HandlerRunning
    /\ request' = [request EXCEPT ![SESSION_OBJECT] = value]
    /\ steps' = steps + 1
    /\ UNCHANGED <<middlewares, pc, session, response, outcome, calls, served,
                   backend, forgotResult>>
    /\ UNCHANGED <<dataVars, raceVars, aliasVars>>

\* the handler mutates its session: session[key] = value, del session[key],
\* session.invalidate() or session.changed(); a KeyError of del ends the
\* handler, and the middleware lets it through
HandlerMutate(op, key, value) ==
    /\ HandlerRunning
    /\ session # NoSession
    /\ IF op = "del" /\ DelItemRaises(session, key)
       THEN /\ pc' = "done"
            /\ outcome' = "Exception"
            /\ calls' = Append(calls, "Exception")
            /\ UNCHANGED session
       ELSE /\ session' = CASE op = "set" -> SetItem(session, key, value)
                            [] op = "del" -> DelItem(session, key)
                            [] op = "invalidate" -> SessionInvalidate(session)
                            [] OTHER -> changed(session)
            /\ calls' = Append(calls, "mutate")
            /\ UNCHANGED <<pc, outcome>>
    /\ steps' = steps + 1
    /\ UNCHANGED <<middlewares, request, response, served, backend,
                   forgotResult>>
    /\ UNCHANGED <<dataVars, raceVars, aliasVars>>

\* the handler returns a result, prepared (sent to the transport) or not;
\* a value that is no response has no transport, and an exception object
\* the handler returns was not sent
HandlerReturn(kind, prepared) ==
    /\ pc = "handler"
    /\ kind \in {"raw", "HTTPException"} => ~prepared
    /\ response' = [kind |-> kind, prepared |-> prepared, cookie |-> FALSE]
    /\ pc' = "returned"
    /\ calls' = Append(calls, "handler_returned")
    /\ UNCHANGED <<middlewares, request, session, outcome, steps, served,
                   backend, forgotResult>>
    /\ UNCHANGED <<dataVars, raceVars, aliasVars>>

\* a middleware that saves a changed session before it lets the exception
\* of the handler through
HandlerRaiseSaving(exc) ==
    /\ pc = "handler"
    /\ pc' = "done"
    /\ outcome' = exc
    /\ calls' = IF request[SESSION_OBJECT] = SessionRef /\ is_changed(session)
                THEN calls \o <<"request.get", "save_session", exc>>
                ELSE Append(calls, exc)
    /\ UNCHANGED <<middlewares, request, session, response, steps, served,
                   backend, forgotResult>>
    /\ UNCHANGED <<dataVars, raceVars, aliasVars>>

\* the handler ends with an exception (the request being cancelled raises
\* CancelledError in it): web.HTTPException is caught and raised again,
\* anything else passes through the try statement
HandlerRaise(exc) ==
    /\ pc = "handler"
    /\ pc' = "done"
    /\ outcome' = exc
    /\ calls' = Append(calls, exc)
    /\ UNCHANGED <<middlewares, request, session, response, steps, served,
                   backend, forgotResult>>
    /\ UNCHANGED <<dataVars, raceVars, aliasVars>>

(* ---------------------------------------------------------------------- *)
(* AbstractStorage.forgot                                                   *)
(* ---------------------------------------------------------------------- *)

\* request["session"] = None, then the try statement: del
\* request[SESSION_KEY]; del request[SESSION_OBJECT], the first KeyError
\* ending the block. raised tells whether the block raised.
ForgotCleanup(req) ==
    LET r1 == [req EXCEPT ![SESSION_LITERAL] = NoneValue]
        r2 == [r1 EXCEPT ![SESSION_KEY] = Absent]
        r3 == [r2 EXCEPT ![SESSION_OBJECT] = Absent]
    IN  IF r1[SESSION_KEY] = Absent THEN [request |-> r1, raised |-> TRUE]
        ELSE IF r2[SESSION_OBJECT] = Absent
             THEN [request |-> r2, raised |-> TRUE]
        ELSE [request |-> r3, raised |-> FALSE]

\* a forgot without the finally clause: the KeyError reaches the caller
ForgotReturnPropagating(raised) == IF raised THEN "KeyError" ELSE "True"

\* what forgot hands to its caller once the cleanup ran: the finally clause
\* returns True whether or not the try block raised
ForgotReturn(raised) == "True"

\* the handler calls storage.forgot(request): session = await
\* self.get_session(request); an error of the backend reaches the handler
ForgotGetSession(ok, data, cacheObj, cacheKey, cacheLit) ==
    /\ HandlerRunning
    /\ steps' = steps + 1
    /\ IF ok
       THEN /\ session' = CurrentSession(session, backend, data)
            /\ request' = CachedRequest(request, cacheObj, cacheKey, cacheLit)
            /\ calls' = calls \o <<"forgot", "get_session">>
            /\ pc' = "forgot_invalidate"
            /\ forgotResult' = "running"
       ELSE /\ calls' = calls \o <<"forgot", "get_session", "raised">>
            /\ forgotResult' = "BackendError"
            /\ UNCHANGED <<session, request, pc>>
    /\ UNCHANGED <<middlewares, response, outcome, served, backend>>
    /\ UNCHANGED <<dataVars, raceVars, aliasVars>>

\* await self.invalidate(request, session) and the rest of forgot; the
\* backend may also empty the SessionData object (clears)
ForgotInvalidate(ok, clears) ==
    /\ pc = "forgot_invalidate"
    /\ pc' = "handler"
    /\ IF ok
       THEN LET done == ForgotCleanup(request)
            IN  /\ backend' = InvalidatedBackend(backend, session)
                /\ session' = IF clears THEN SessionInvalidate(session)
                              ELSE session
                /\ request' = done.request
                /\ calls' = calls \o
                     (IF done.raised THEN <<"invalidate", "clear", "KeyError">>
                      ELSE <<"invalidate", "clear">>)
                /\ forgotResult' = ForgotReturn(done.raised)
       ELSE /\ calls' = calls \o <<"invalidate", "raised">>
            /\ forgotResult' = "BackendError"
            /\ UNCHANGED <<backend, session, request>>
    /\ UNCHANGED <<middlewares, response, outcome, steps, served>>
    /\ UNCHANGED <<dataVars, raceVars, aliasVars>>

(* ---------------------------------------------------------------------- *)
(* session_middleware.middleware, after the handler                         *)
(* ---------------------------------------------------------------------- *)

\* isinstance(response, (web.StreamResponse, web.HTTPException)):
\* web.Response, web.WebSocketResponse and web.HTTPException all derive
\* from web.StreamResponse
IsStreamResponse(kind) ==
    kind \in {"Response", "StreamResponse", "WebSocketResponse",
              "HTTPException"}

\* a middleware that looks for the session under the literal "session" key
SessionToSaveLiteralSlot(req, s) ==
    /\ req[SESSION_LITERAL] = SessionRef
    /\ s # NoSession
    /\ is_changed(s)

\* a middleware that saves every session it finds, changed or not
SessionToSaveUnchanged(req, s) ==
    /\ req[SESSION_OBJECT] = SessionRef
    /\ s # NoSession

\* session = request.get(SESSION_OBJECT); isinstance(session, SessionData)
\* and session.is_changed
SessionToSave(req, s) ==
    /\ req[SESSION_OBJECT] = SessionRef
    /\ s # NoSession
    /\ is_changed(s)

\* a middleware without the check of response.prepared
LeaveBranchUnguarded(resp, req, s) ==
    IF ~IsStreamResponse(resp.kind) THEN "pass"
    ELSE IF SessionToSave(req, s) THEN "save"
    ELSE "return"

\* the path the middleware takes once the handler returned: "pass" hands
\* a result that is no response back, "refuse" raises RuntimeError on a
\* prepared response, "save" awaits storage.save_session, "return" returns
\* the response without saving
LeaveBranch(resp, req, s) ==
    IF ~IsStreamResponse(resp.kind) THEN "pass"
    ELSE IF resp.prepared THEN "refuse"
    ELSE IF SessionToSave(req, s) THEN "save"
    ELSE "return"

\* a middleware that swallows the error of save_session
SaveOutcomeSwallowed(ok) == "returned"

\* how the middleware ends once it awaited save_session: an error of the
\* backend leaves the middleware, otherwise the response is returned
SaveOutcome(ok) == IF ok THEN "returned" ELSE "BackendError"

\* the handler returned: the rest of the middleware
MiddlewareLeave(ok) ==
    /\ pc = "returned"
    /\ pc' = "done"
    /\ LET branch == LeaveBranch(response, request, session)
       IN  CASE branch = "pass" ->
                  /\ outcome' = "returned"
                  /\ calls' = Append(calls, "return")
                  /\ UNCHANGED <<response, backend>>
             [] branch = "refuse" ->
                  /\ outcome' = "RuntimeError"
                  /\ calls' = Append(calls, "RuntimeError")
                  /\ UNCHANGED <<response, backend>>
             [] branch = "save" ->
                  /\ outcome' = SaveOutcome(ok)
                  /\ calls' = calls \o
                       <<"request.get", "save_session",
                         IF ok THEN "return" ELSE "raised">>
                  /\ backend' = IF ok THEN SavedBackend(backend, session)
                                ELSE backend
                  /\ response' = IF ok THEN [response EXCEPT !.cookie = TRUE]
                                 ELSE response
             [] OTHER ->
                  /\ outcome' = "returned"
                  /\ calls' = calls \o <<"request.get", "return">>
                  /\ UNCHANGED <<response, backend>>
    /\ UNCHANGED <<middlewares, request, session, steps, served, forgotResult>>
    /\ UNCHANGED <<dataVars, raceVars, aliasVars>>

(* ---------------------------------------------------------------------- *)
(* Specification                                                            *)
(* ---------------------------------------------------------------------- *)

Next ==
    \/ \E storage \in StorageObjects : configure_session(storage)
    \/ MiddlewareEnter
    \/ \E data \in DataInputs, cacheObj, cacheKey, cacheLit \in BOOLEAN :
         HandlerGetSession(data, cacheObj, cacheKey, cacheLit)
    \/ \E value \in {NoneValue, OtherRef} : HandlerSetObject(value)
    \/ \E op \in {"set", "del", "invalidate", "changed"},
          key \in AttrKeys, value \in AttrValues : HandlerMutate(op, key, value)
    \/ \E kind \in ResponseKinds, prepared \in BOOLEAN :
         HandlerReturn(kind, prepared)
    \/ \E exc \in HandlerExceptions : HandlerRaise(exc)
    \/ \E ok \in BOOLEAN, data \in DataInputs,
          cacheObj, cacheKey, cacheLit \in BOOLEAN :
         ForgotGetSession(ok, data, cacheObj, cacheKey, cacheLit)
    \/ \E ok, clears \in BOOLEAN : ForgotInvalidate(ok, clears)
    \/ \E ok \in BOOLEAN : MiddlewareLeave(ok)

Spec == Init /\ [][Next]_vars

(* ---------------------------------------------------------------------- *)
(* A SessionData object on its own                                          *)
(* ---------------------------------------------------------------------- *)

\* the keys of a session mapping: the identity key, the creation time and
\* an attribute of the application
SessionKeys == {SESSION_KEY, "created", "user"}

\* the values data holds under a key: an identity (0 stands for a falsy one,
\* such as the empty string), a creation time, an attribute value
DataValues(key) ==
    IF key = SESSION_KEY THEN {0, 7}
    ELSE IF key = "created" THEN {2}
    ELSE {1}

\* the mappings given as data
DataArgs ==
    UNION {{f \in [D -> {0, 1, 2, 7}] : \A k \in D : f[k] \in DataValues(k)} :
           D \in SUBSET SessionKeys}

\* the identity and max_age arguments
IdentityArgs == {None, 8}
MaxAgeArgs == {None, 0, 1, 10}

\* the value a handler stores with session[key] = value
StoredValue == 9

\* SessionData.__getitem__: KeyError when key is missing
GetItemRaises(s, key) == key \notin DOMAIN s._data

GetItem(s, key) == IF GetItemRaises(s, key) THEN "KeyError" ELSE s._data[key]

\* SessionData.__contains__, __len__, __iter__
Contains(s, key) == key \in DOMAIN s._data
Length(s) == Cardinality(DOMAIN s._data)
Iterate(s) == DOMAIN s._data

\* SessionData.max_age setter
SetMaxAge(s, value) == [s EXCEPT !._max_age = value]

OpRunning == sd # NoSession /\ Len(ops) < MaxOps

\* one operation on sd: what it was, whether it raised, what it returned
Performed(op, key, raised, result) ==
    /\ before' = sd
    /\ ops' = Append(ops, [op |-> op, key |-> key, raised |-> raised,
                           result |-> result])
    /\ UNCHANGED <<args, mwVars, backend, raceVars, aliasVars>>

\* SessionData(db, data=..., new=..., identity=..., max_age=...); hasData
\* is FALSE for data=None
Construct(hasData, data, new, identity, max_age) ==
    /\ sd = NoSession
    /\ ~hasData => data = EmptyData
    /\ sd' = SessionDataInit(hasData, data, new, identity, max_age, Now,
                             ClientIdentity)
    /\ args' = [hasData |-> hasData, data |-> data, new |-> new,
                identity |-> identity, max_age |-> max_age]
    /\ UNCHANGED <<before, ops, mwVars, backend, raceVars, aliasVars>>

\* session[key] = value
OpSet(key, value) ==
    /\ OpRunning
    /\ sd' = SetItem(sd, key, value)
    /\ Performed("set", key, FALSE, "None")

\* del session[key]
OpDel(key) ==
    /\ OpRunning
    /\ sd' = DelItem(sd, key)
    /\ Performed("del", key, DelItemRaises(sd, key),
                 IF DelItemRaises(sd, key) THEN "KeyError" ELSE "None")

\* a __getitem__ that marks the session as used
OpGetTouching(key) ==
    /\ OpRunning
    /\ sd' = [sd EXCEPT !._changed = TRUE]
    /\ Performed("get", key, GetItemRaises(sd, key), GetItem(sd, key))

\* session[key]
OpGet(key) ==
    /\ OpRunning
    /\ sd' = sd
    /\ Performed("get", key, GetItemRaises(sd, key), GetItem(sd, key))

\* key in session
OpContains(key) ==
    /\ OpRunning
    /\ sd' = sd
    /\ Performed("contains", key, FALSE, Contains(sd, key))

\* len(session)
OpLen ==
    /\ OpRunning
    /\ sd' = sd
    /\ Performed("len", "", FALSE, Length(sd))

\* iter(session)
OpIter ==
    /\ OpRunning
    /\ sd' = sd
    /\ Performed("iter", "", FALSE, Iterate(sd))

\* session.empty
OpEmpty ==
    /\ OpRunning
    /\ sd' = sd
    /\ Performed("empty", "", FALSE, empty(sd))

\* session.invalidate()
OpInvalidate ==
    /\ OpRunning
    /\ sd' = SessionInvalidate(sd)
    /\ Performed("invalidate", "", FALSE, "None")

\* session.changed()
OpChanged ==
    /\ OpRunning
    /\ sd' = changed(sd)
    /\ Performed("changed", "", FALSE, "None")

\* session.max_age = value
OpSetMaxAge(value) ==
    /\ OpRunning
    /\ sd' = SetMaxAge(sd, value)
    /\ Performed("max_age", "", FALSE, "None")

NextData ==
    \/ \E hasData, new \in BOOLEAN, data \in DataArgs,
          identity \in IdentityArgs, max_age \in MaxAgeArgs :
         Construct(hasData, data, new, identity, max_age)
    \/ \E key \in SessionKeys : OpSet(key, StoredValue)
    \/ \E key \in SessionKeys : OpDel(key)
    \/ \E key \in SessionKeys : OpGet(key)
    \/ \E key \in SessionKeys : OpContains(key)
    \/ OpLen
    \/ OpIter
    \/ OpEmpty
    \/ OpInvalidate
    \/ OpChanged
    \/ \E value \in {None, 3} : OpSetMaxAge(value)

SpecData == Init /\ [][NextData]_vars

(* ---------------------------------------------------------------------- *)
(* Requests of one client in flight at the same time                        *)
(* ---------------------------------------------------------------------- *)

\* the attribute keys the concurrent handlers write
RaceKeys == {"user", "cart"}

\* the record an earlier request of the client left in the backend
StoredBackend == [i \in {ClientIdentity} |-> [k \in {"user"} |-> 1]]

\* the application with its middleware installed and no request in flight
InitRace ==
    /\ middlewares = <<session_middleware(StorageRef)>>
    /\ pc = "idle"
    /\ request = EmptyRequest
    /\ session = NoSession
    /\ response = NoResponse
    /\ outcome = "none"
    /\ calls = << >>
    /\ steps = 0
    /\ served = 0
    /\ backend \in {EmptyBackend, StoredBackend}
    /\ forgotResult = "none"
    /\ sd = NoSession
    /\ args = NoArgs
    /\ before = NoSession
    /\ ops = << >>
    /\ flights = [r \in Flights |-> IdleFlight]
    /\ saveOrder = << >>
    /\ heap = InitialHeap
    /\ instances = [i \in Instances |-> NoSession]
    /\ supplied = [i \in Instances |-> NoAddress]
    /\ prior = NoPrior

UnchangedByFlight == UNCHANGED <<mwVars, dataVars, aliasVars>>

\* request r arrives: the middleware stamps the storage on it and awaits
\* the handler
FlightEnter(r) ==
    /\ flights[r].pc = "idle"
    /\ flights' = [flights EXCEPT
                     ![r].pc = "handler",
                     ![r].request = AttachStorage(EmptyRequest, middlewares[1])]
    /\ UNCHANGED <<backend, saveOrder>>
    /\ UnchangedByFlight

\* the handler of r awaits get_session: the session is built from the
\* record the backend holds at that moment and cached on the request
FlightLoad(r) ==
    /\ flights[r].pc = "handler"
    /\ flights[r].session = NoSession
    /\ LET loaded == LoadedSession(backend, EmptyData)
       IN  flights' = [flights EXCEPT
                         ![r].session = loaded,
                         ![r].loaded = loaded._data,
                         ![r].request = CachedRequest(flights[r].request,
                                                      TRUE, TRUE, TRUE)]
    /\ UNCHANGED <<backend, saveOrder>>
    /\ UnchangedByFlight

\* the handler of r writes an attribute of its own SessionData
FlightMutate(r, key, value) ==
    /\ flights[r].pc = "handler"
    /\ flights[r].session # NoSession
    /\ flights' = [flights EXCEPT
                     ![r].session = SetItem(flights[r].session, key, value)]
    /\ UNCHANGED <<backend, saveOrder>>
    /\ UnchangedByFlight

\* the handler of r returns a web.Response that is not prepared
FlightReturn(r) ==
    /\ flights[r].pc = "handler"
    /\ flights' = [flights EXCEPT
                     ![r].pc = "returned",
                     ![r].response = [kind |-> "Response", prepared |-> FALSE,
                                      cookie |-> FALSE]]
    /\ UNCHANGED <<backend, saveOrder>>
    /\ UnchangedByFlight

\* a middleware that merges the session with the record of the backend
\* before it saves
FlightLeaveMerging(r) ==
    /\ flights[r].pc = "returned"
    /\ LET f == flights[r]
           merged == IF f.session._identity \in DOMAIN backend
                     THEN [f.session EXCEPT !._data =
                             DictUpdate(backend[f.session._identity],
                                        f.session._data)]
                     ELSE f.session
       IN  IF LeaveBranch(f.response, f.request, f.session) = "save"
           THEN /\ backend' = SavedBackend(backend, merged)
                /\ saveOrder' = Append(saveOrder, r)
                /\ flights' = [flights EXCEPT
                                 ![r].pc = "done",
                                 ![r].response.cookie = TRUE]
           ELSE /\ flights' = [flights EXCEPT ![r].pc = "done"]
                /\ UNCHANGED <<backend, saveOrder>>
    /\ UnchangedByFlight

\* the rest of the middleware for r: the SessionData found on the request
\* of r is saved when it is changed, whatever the backend holds by then
FlightLeave(r) ==
    /\ flights[r].pc = "returned"
    /\ LET f == flights[r]
       IN  IF LeaveBranch(f.response, f.request, f.session) = "save"
           THEN /\ backend' = SavedBackend(backend, f.session)
                /\ saveOrder' = Append(saveOrder, r)
                /\ flights' = [flights EXCEPT
                                 ![r].pc = "done",
                                 ![r].response.cookie = TRUE]
           ELSE /\ flights' = [flights EXCEPT ![r].pc = "done"]
                /\ UNCHANGED <<backend, saveOrder>>
    /\ UnchangedByFlight

NextRace ==
    \/ \E r \in Flights : FlightEnter(r)
    \/ \E r \in Flights : FlightLoad(r)
    \/ \E r \in Flights, key \in RaceKeys : FlightMutate(r, key, StoredValue)
    \/ \E r \in Flights : FlightReturn(r)
    \/ \E r \in Flights : FlightLeave(r)

SpecRace == InitRace /\ [][NextRace]_vars

(* ---------------------------------------------------------------------- *)
(* Two SessionData objects and the dicts they refer to                      *)
(* ---------------------------------------------------------------------- *)

\* the object with its attributes looked up in the heap
Deref(h, obj) == [obj EXCEPT !._data = h[obj._data]]

\* an __init__ without self._data = {}: update() then writes into the dict
\* of the class attribute, which every instance reads
HeapInitShared(h, ref, new, identity, max_age) ==
    LET hasData == ref # NoAddress
        data    == IF hasData THEN h[ref] ELSE EmptyData
        built   == SessionDataInit(hasData, data, new, identity, max_age,
                                   Now, ClientIdentity)
    IN  [heap |-> [h EXCEPT ![ClassData] = DictUpdate(h[ClassData], data)],
         obj  |-> [built EXCEPT !._data = ClassData]]

\* SessionData.__init__ on the heap: self._data = {} creates a dict of this
\* instance and update() copies the entries of data (at ref) into it
HeapInit(h, ref, new, identity, max_age) ==
    LET hasData == ref # NoAddress
        data    == IF hasData THEN h[ref] ELSE EmptyData
        built   == SessionDataInit(hasData, data, new, identity, max_age,
                                   Now, ClientIdentity)
    IN  [heap |-> Append(h, built._data),
         obj  |-> [built EXCEPT !._data = Len(h) + 1]]

\* __setitem__ on the heap: self._data[key] = value writes into the dict
\* the instance refers to
HeapSetItem(h, obj, key, value) ==
    LET after == SetItem(Deref(h, obj), key, value)
    IN  [heap |-> [h EXCEPT ![obj._data] = after._data],
         obj  |-> [after EXCEPT !._data = obj._data]]

\* __delitem__ on the heap: del self._data[key] on the dict the instance
\* refers to; nothing changes when it raises KeyError
HeapDelItem(h, obj, key) ==
    LET after == DelItem(Deref(h, obj), key)
    IN  [heap |-> [h EXCEPT ![obj._data] = after._data],
         obj  |-> [after EXCEPT !._data = obj._data]]

\* invalidate on the heap: self._data = {} binds the instance to a new dict
\* and leaves the old one as it was
HeapInvalidate(h, obj) ==
    LET after == SessionInvalidate(Deref(h, obj))
    IN  [heap |-> Append(h, after._data),
         obj  |-> [after EXCEPT !._data = Len(h) + 1]]

\* the data an instance can be built from: None, the default argument, the
\* caller's mapping, or session_data() of an instance that exists
DataAddresses ==
    {NoAddress, DefaultData, CallerData}
        \cup {instances[j]._data : j \in {k \in Instances :
                                           instances[k] # NoSession}}

\* what an operation of instance i leaves behind
Stored(i, op, result) ==
    /\ heap' = result.heap
    /\ instances' = [instances EXCEPT ![i] = result.obj]
    /\ prior' = [actor |-> i, op |-> op, heap |-> heap,
                 instances |-> instances]
    /\ UNCHANGED <<mwVars, backend, dataVars, raceVars>>

\* instances[i] = SessionData(db, data=<the dict at ref>)
AliasConstruct(i, ref) ==
    /\ instances[i] = NoSession
    /\ Len(heap) < MaxHeap
    /\ supplied' = [supplied EXCEPT ![i] = ref]
    /\ Stored(i, "init", HeapInit(heap, ref, FALSE, None, None))

AliasRunning(i) == instances[i] # NoSession

\* instances[i][key] = value
AliasSet(i, key, value) ==
    /\ AliasRunning(i)
    /\ Stored(i, "set", HeapSetItem(heap, instances[i], key, value))
    /\ UNCHANGED supplied

\* del instances[i][key]
AliasDel(i, key) ==
    /\ AliasRunning(i)
    /\ Stored(i, "del", HeapDelItem(heap, instances[i], key))
    /\ UNCHANGED supplied

\* instances[i].invalidate()
AliasInvalidate(i) ==
    /\ AliasRunning(i)
    /\ Len(heap) < MaxHeap
    /\ Stored(i, "invalidate", HeapInvalidate(heap, instances[i]))
    /\ UNCHANGED supplied

NextAlias ==
    \/ \E i \in Instances, ref \in DataAddresses : AliasConstruct(i, ref)
    \/ \E i \in Instances, key \in AttrKeys : AliasSet(i, key, StoredValue)
    \/ \E i \in Instances, key \in AttrKeys : AliasDel(i, key)
    \/ \E i \in Instances : AliasInvalidate(i)

SpecAlias == Init /\ [][NextAlias]_vars

(* ---------------------------------------------------------------------- *)
(* Properties                                                               *)
(* ---------------------------------------------------------------------- *)

\* where a call occurs in the calls of the request in flight
Positions(e) == {i \in DOMAIN calls : calls[i] = e}
CallCount(e) == Cardinality(Positions(e))
Called(e) == Positions(e) # {}
AllBefore(a, b) == \A i \in Positions(a), j \in Positions(b) : i < j

\* the request context holds a SessionData under SESSION_OBJECT
SessionAttached == request[SESSION_OBJECT] = SessionRef /\ session # NoSession

\* C1: when the handler mutated the session attached to the request and
\* returned a web.Response that is not prepared, the middleware calls
\* save_session exactly once, after every mutation and after the handler
\* returned, and returns the response only after the save.
C1_SaveOnceAfterHandler ==
    (/\ pc = "done"
     /\ response.kind = "Response"
     /\ ~response.prepared
     /\ Called("mutate")
     /\ SessionAttached)
    => /\ CallCount("save_session") = 1
       /\ AllBefore("mutate", "save_session")
       /\ AllBefore("handler_returned", "save_session")
       /\ AllBefore("save_session", "return")
       /\ outcome = "returned" => CallCount("return") = 1

C1_Witness ==
    /\ pc = "done"
    /\ outcome = "returned"
    /\ response.kind = "Response"
    /\ Called("mutate")
    /\ SessionAttached
    /\ CallCount("save_session") = 1
    /\ response.cookie

\* C2: once the handler returned, a request context that holds no
\* SessionData under SESSION_OBJECT, or one whose is_changed is false,
\* means the middleware never calls save_session.
C2_NoSaveWithoutChange ==
    (/\ pc \in {"returned", "done"}
     /\ \/ request[SESSION_OBJECT] # SessionRef
        \/ session = NoSession
        \/ ~session._changed)
    => CallCount("save_session") = 0

C2_Witness ==
    /\ pc = "done"
    /\ outcome = "returned"
    /\ response.kind = "Response"
    /\ SessionAttached
    /\ session._new
    /\ ~session._changed
    /\ Called("request.get")
    /\ ~Called("save_session")

\* C3: when the handler returns a raw value, a websocket response or a
\* streaming response, prepared or not, the middleware returns it unchanged,
\* raises nothing, never reads the session slot and never calls
\* save_session.
C3_NonStandardPassedThrough ==
    (/\ pc = "done"
     /\ response.kind \in {"raw", "WebSocketResponse", "StreamResponse"})
    => /\ outcome = "returned"
       /\ ~response.cookie
       /\ ~Called("request.get")
       /\ ~Called("save_session")

\* C4: a web.Response that is already prepared ends the request with
\* RuntimeError and save_session is never called, whatever the session.
C4_PreparedResponseRefused ==
    (/\ pc = "done"
     /\ response.kind = "Response"
     /\ response.prepared)
    => /\ outcome = "RuntimeError"
       /\ ~Called("save_session")
       /\ ~Called("return")

C4_Witness ==
    /\ pc = "done"
    /\ response.kind = "Response"
    /\ response.prepared
    /\ SessionAttached
    /\ session._changed
    /\ outcome = "RuntimeError"

\* C5 as stated: an HTTP exception the handler raises or returns, a
\* cancellation or any other failure of the handler is passed on unchanged
\* and save_session is never called.
C5_ExceptionsNeverSave ==
    (/\ pc = "done"
     /\ outcome \in HandlerExceptions \/ response.kind = "HTTPException")
    => /\ ~Called("save_session")
       /\ response.kind = "HTTPException"
            => outcome = "returned" /\ ~response.cookie

\* C5 amended: an exception the handler raises (web.HTTPException,
\* CancelledError or any other) leaves the middleware unchanged, the session
\* slot is not read and save_session is not called, also when the session is
\* changed; a web.HTTPException the handler returns is a response like any
\* other, and a changed session attached to the request is saved once.
C5_RaisedExceptionsNeverSave ==
    /\ (pc = "done" /\ outcome \in HandlerExceptions)
       => /\ ~Called("save_session")
          /\ ~Called("request.get")
          /\ calls[Len(calls)] = outcome
          /\ response = NoResponse
    /\ (/\ pc = "done"
        /\ response.kind = "HTTPException"
        /\ ~response.prepared
        /\ SessionAttached
        /\ session._changed)
       => CallCount("save_session") = 1

C5_Witness ==
    /\ pc = "done"
    /\ outcome = "HTTPException"
    /\ SessionAttached
    /\ Called("mutate")
    /\ session._changed

\* C6: in every state in which the handler runs or has run, the request
\* context holds the storage of the middleware under SESSION_STORAGE, and
\* the handler is the first thing called for the request.
C6_StorageAttachedBeforeHandler ==
    pc \in {"handler", "forgot_invalidate", "returned", "done"}
    => /\ request[SESSION_STORAGE] = middlewares[1]
       /\ calls[1] = "handler"

C6_Witness ==
    /\ pc = "done"
    /\ outcome = "Exception"
    /\ request[SESSION_STORAGE] = StorageRef

\* C7: an object that is no AbstractStorage never becomes a middleware: the
\* factory raises, nothing is appended to app.middlewares and no request is
\* served.
C7_InvalidStorageNeverInstalled ==
    /\ \A i \in DOMAIN middlewares : middlewares[i] = StorageRef
    /\ served > 0 => request[SESSION_STORAGE] = StorageRef
    /\ pc = "aborted"
       => /\ middlewares = << >>
          /\ served = 0
          /\ request = EmptyRequest
          /\ calls = << >>

C7_Witness ==
    /\ pc = "aborted"
    /\ middlewares = << >>

\* the last call of storage.forgot for the request in flight
LastForgot == CHOOSE i \in Positions("forgot") :
                  \A j \in Positions("forgot") : j <= i

\* whether get_session or invalidate raised in that call
LastForgotBackendFailed ==
    \/ Len(calls) >= LastForgot + 2 /\ calls[LastForgot + 2] = "raised"
    \/ /\ Len(calls) >= LastForgot + 3
       /\ calls[LastForgot + 2] = "invalidate"
       /\ calls[LastForgot + 3] = "raised"

ForgotEnded == forgotResult \notin {"none", "running"}

\* C8 as stated: forgot always returns True and never lets a failure reach
\* its caller.
C8_ForgotAlwaysTrue == ForgotEnded => forgotResult = "True"

\* C8 amended: forgot returns True whenever get_session and invalidate
\* completed, also when clearing the request context raised KeyError; an
\* error of get_session or of invalidate reaches the caller.
C8_ForgotTrueUnlessBackendFails ==
    ForgotEnded
    => forgotResult = IF LastForgotBackendFailed THEN "BackendError"
                      ELSE "True"

C8_Witness ==
    /\ forgotResult = "True"
    /\ calls[Len(calls)] = "KeyError"

\* C9: forgot calls get_session, then invalidate, then clears the context,
\* and when it returns the request context holds no session object and no
\* session identity, whatever the slots held before.
C9_ForgotClearsContext ==
    (/\ forgotResult = "True"
     /\ pc = "handler"
     /\ calls[Len(calls)] \in {"clear", "KeyError"})
    => /\ calls[LastForgot + 1] = "get_session"
       /\ calls[LastForgot + 2] = "invalidate"
       /\ calls[LastForgot + 3] = "clear"
       /\ request[SESSION_OBJECT] # SessionRef
       /\ request[SESSION_LITERAL] # SessionRef
       /\ request[SESSION_KEY] = Absent

\* C10: an error of save_session leaves the middleware and an error of
\* get_session or invalidate leaves forgot; the call that failed is not
\* made again: one save_session per request at most, one get_session and at
\* most one invalidate per forgot.
C10_BackendErrorsPropagateOnce ==
    /\ CallCount("save_session") <= 1
    /\ CallCount("get_session") = CallCount("forgot")
    /\ CallCount("invalidate") <= CallCount("forgot")
    /\ \A i \in DOMAIN calls :
         /\ calls[i] = "get_session" => calls[i - 1] = "forgot"
         /\ calls[i] = "invalidate" => calls[i - 1] = "get_session"
         /\ (calls[i] = "raised" /\ calls[i - 1] = "save_session")
            => i = Len(calls) /\ pc = "done" /\ outcome = "BackendError"
         /\ (calls[i] = "raised" /\ calls[i - 1] \in {"get_session", "invalidate"})
            => IF i = Len(calls)
               THEN forgotResult = "BackendError" /\ pc = "handler"
               ELSE calls[i + 1] \notin {"get_session", "invalidate"}

C10_Witness ==
    /\ pc = "done"
    /\ outcome = "BackendError"
    /\ forgotResult = "BackendError"
    /\ CallCount("save_session") = 1

\* the last operation performed on sd
LastOp == ops[Len(ops)]

Constructed == sd # NoSession
JustConstructed == Constructed /\ Len(ops) = 0

\* C11 as stated: a SessionData constructed with new=True is unchanged
\* right after construction and changed after one set or one del, for every
\* key and value.
C11_ChangedAfterOneSetOrDel ==
    (Constructed /\ args.new)
    => /\ Len(ops) = 0 => ~sd._changed
       /\ (Len(ops) = 1 /\ ops[1].op \in {"set", "del"}) => sd._changed

\* C11 amended: a SessionData constructed with new=True is new and
\* unchanged right after construction, and changed after one set (any key
\* and value) or one del of a key it holds; a del of a key it does not hold
\* raises KeyError and leaves it unchanged.
C11_ChangedAfterOneSetOrDelOfHeldKey ==
    (Constructed /\ args.new)
    => /\ sd._new
       /\ Len(ops) = 0 => ~sd._changed
       /\ (Len(ops) = 1 /\ ops[1].op = "set") => sd._changed
       /\ (Len(ops) = 1 /\ ops[1].op = "del")
          => IF ops[1].key \in DOMAIN before._data
             THEN sd._changed /\ ~ops[1].raised
             ELSE ~sd._changed /\ ops[1].raised

C11_Witness ==
    /\ Constructed
    /\ args.new
    /\ Len(ops) = 1
    /\ ops[1].op = "del"
    /\ ~ops[1].raised
    /\ ~before._changed
    /\ sd._changed

\* C12: invalidate() leaves the session without attributes and changed,
\* identity and created as they were.
C12_InvalidateEmptiesAndMarks ==
    (Len(ops) > 0 /\ LastOp.op = "invalidate")
    => /\ DOMAIN sd._data = {}
       /\ empty(sd)
       /\ sd._changed
       /\ sd._identity = before._identity
       /\ sd._created = before._created

C12_Witness ==
    /\ Len(ops) > 0
    /\ LastOp.op = "invalidate"
    /\ ~before._changed
    /\ DOMAIN before._data # {}
    /\ empty(sd)

\* the identity the stated precedence gives: the identity of data when data
\* holds one, else the identity argument when one is given, else a new one
StatedIdentity ==
    IF /\ args.hasData
       /\ SESSION_KEY \in DOMAIN args.data
       /\ Truthy(args.data[SESSION_KEY])
    THEN args.data[SESSION_KEY]
    ELSE IF Truthy(args.identity) THEN args.identity
    ELSE ClientIdentity

\* C13: the identity of a constructed SessionData follows the precedence
\* data's identity field, identity argument, generated identity.
C13_IdentityPrecedence == JustConstructed => sd._identity = StatedIdentity

\* C14: once is_changed is true no operation makes it false again.
C14_ChangedIsMonotonic ==
    (Len(ops) > 0 /\ before._changed) => sd._changed

C14_Witness ==
    /\ Len(ops) = 2
    /\ ops[1].op = "set"
    /\ ops[2].op = "invalidate"
    /\ before._changed
    /\ sd._changed

\* C15: no operation changes the identity, not even a set or del of the
\* identity key copied in from data.
C15_IdentityImmutable ==
    Len(ops) > 0
    => /\ sd._identity = before._identity
       /\ sd._identity = SessionDataInit(args.hasData, args.data, args.new,
                             args.identity, args.max_age, Now,
                             ClientIdentity)._identity

C15_Witness ==
    /\ Len(ops) > 0
    /\ LastOp.op = "set"
    /\ LastOp.key = SESSION_KEY
    /\ SESSION_KEY \in DOMAIN args.data
    /\ sd._data[SESSION_KEY] = StoredValue
    /\ sd._identity = args.data[SESSION_KEY]

\* the operations that only read
ReadOps == {"contains", "len", "iter", "empty", "get"}

\* a request whose context holds sd under every key a backend uses
RequestHoldingSession == CachedRequest(EmptyRequest, TRUE, TRUE, TRUE)

\* C16: contains, len, iter, empty and a get that succeeds leave is_changed
\* and the attributes as they were, so a session that was only read is not
\* one the middleware saves.
C16_ReadsChangeNothing ==
    /\ (Len(ops) > 0 /\ LastOp.op \in ReadOps /\ ~LastOp.raised)
       => /\ sd._changed = before._changed
          /\ sd._data = before._data
    /\ (Constructed /\ \A i \in DOMAIN ops : ops[i].op \in ReadOps)
       => ~SessionToSave(RequestHoldingSession, sd)

C16_Witness ==
    /\ Len(ops) = 2
    /\ ops[1].op = "get"
    /\ ~ops[1].raised
    /\ ops[2].op = "iter"
    /\ ~sd._changed
    /\ DOMAIN sd._data # {}

\* C17 as stated: only get can fail.
C17_OnlyGetFails ==
    \A i \in DOMAIN ops : ops[i].raised => ops[i].op = "get"

\* C17 amended: only get and del can fail, both with KeyError and exactly
\* when the key is missing, and the failed operation leaves the attributes
\* and is_changed as they were; set, contains, len, iter, invalidate and
\* empty never fail.
C17_OnlyMissingKeyFails ==
    /\ \A i \in DOMAIN ops : ops[i].raised => ops[i].op \in {"get", "del"}
    /\ Len(ops) > 0
       => /\ LastOp.raised <=> /\ LastOp.op \in {"get", "del"}
                               /\ LastOp.key \notin DOMAIN before._data
          /\ LastOp.raised => /\ LastOp.result = "KeyError"
                              /\ sd._data = before._data
                              /\ sd._changed = before._changed

C17_Witness ==
    /\ Len(ops) > 0
    /\ LastOp.op = "del"
    /\ LastOp.raised
    /\ ~sd._changed
    /\ DOMAIN sd._data # {}

\* C18: a SessionData constructed with data None or empty is new whatever
\* the new argument; with data that is not empty, new is the argument.
C18_NewWithoutData ==
    JustConstructed
    => sd._new = IF ~args.hasData \/ args.data = EmptyData THEN TRUE
                 ELSE args.new

\* C19: a second invalidate() right after the first changes nothing that
\* can be observed, from every state of the session.
C19_InvalidateIdempotent ==
    /\ (/\ Len(ops) >= 2
        /\ LastOp.op = "invalidate"
        /\ ops[Len(ops) - 1].op = "invalidate")
       => sd = before
    /\ Constructed
       => SessionInvalidate(SessionInvalidate(sd)) = SessionInvalidate(sd)

C19_Witness ==
    /\ Len(ops) = 2
    /\ ops[1].op = "invalidate"
    /\ ops[2].op = "invalidate"
    /\ DOMAIN args.data # {}
    /\ sd = before

\* C20: concurrent requests of one client are not serialised: each save
\* writes the attributes of the saving request's own SessionData over the
\* record, so after two saves the backend holds the later one's attributes
\* only (last write wins).
C20_LastWriteWins ==
    Len(saveOrder) > 0
    => LET r == saveOrder[Len(saveOrder)]
       IN  /\ flights[r].pc = "done"
           /\ ClientIdentity \in DOMAIN backend
           /\ backend[ClientIdentity] = flights[r].session._data

\* both requests loaded the same stored attributes, each wrote its own
\* SessionData, both saved, and the earlier one's attribute is lost
C20_Witness ==
    \E a, b \in Flights :
      /\ a # b
      /\ saveOrder = <<a, b>>
      /\ flights[a].pc = "done"
      /\ flights[b].pc = "done"
      /\ flights[a].loaded = StoredBackend[ClientIdentity]
      /\ flights[b].loaded = flights[a].loaded
      /\ "cart" \in DOMAIN flights[a].session._data
      /\ flights[b].session._data["user"] = StoredValue
      /\ backend[ClientIdentity] = flights[b].session._data
      /\ "cart" \notin DOMAIN backend[ClientIdentity]

\* the instances other than the one that performed the last operation
Others == {j \in Instances : j # prior.actor /\ prior.instances[j] # NoSession}

\* C21: each SessionData owns its attributes mapping: under any
\* interleaving of operations on two instances (built with the default
\* data argument, from the same mapping, or from one another's attributes),
\* constructing, set, del or invalidate on one instance never changes the
\* attributes or the changed flag of the other, nor the mapping its data
\* argument was; the default argument's dict, the class attribute's dict
\* and the caller's mapping stay as they were.
C21_InstancesOwnAttributes ==
    /\ heap[ClassData] = EmptyData
    /\ heap[DefaultData] = EmptyData
    /\ heap[CallerData] = CallerMapping
    /\ prior # NoPrior
       => /\ \A j \in Others :
               /\ Deref(heap, instances[j])._data
                    = Deref(prior.heap, prior.instances[j])._data
               /\ instances[j]._changed = prior.instances[j]._changed
          /\ supplied[prior.actor] # NoAddress
             => heap[supplied[prior.actor]] = prior.heap[supplied[prior.actor]]

\* both instances were built from the caller's mapping; the first stored
\* another "user", then the second deleted its "user": each sees its own
\* change only and the caller's mapping still holds the "user" it had
C21_Witness ==
    /\ supplied[1] = CallerData
    /\ supplied[2] = CallerData
    /\ prior # NoPrior
    /\ prior.actor = 2
    /\ prior.op = "del"
    /\ DataGet(Deref(prior.heap, prior.instances[1])._data, "user") = StoredValue
    /\ DataGet(Deref(heap, instances[1])._data, "user") = StoredValue
    /\ instances[1]._changed
    /\ DataGet(Deref(prior.heap, prior.instances[2])._data, "user") = 1
    /\ DOMAIN Deref(heap, instances[2])._data = {}
    /\ instances[2]._changed
    /\ heap[CallerData] = CallerMapping

\* the fields of a SessionData object
SessionFields ==
    {"_changed", "_data", "_identity", "_new", "_max_age", "_created"}

\* sd was constructed from data whose age exceeds max_age
ConstructedExpired ==
    /\ JustConstructed
    /\ Expired(args.hasData, args.data, args.max_age, Now)

\* C22: expiration has no effect at construction: a SessionData built from
\* data whose age (now - created) exceeds max_age holds every entry of data
\* as an attribute and has the identity, created, new and changed of the
\* same construction with any max_age the age is within; the object has no
\* expired flag.
C22_ExpirationHasNoEffect ==
    ConstructedExpired
    => /\ args.hasData => sd._data = args.data
       /\ DOMAIN sd = SessionFields
       /\ \A within \in MaxAgeArgs :
            ~Expired(args.hasData, args.data, within, Now)
            => LET fresh == SessionDataInit(args.hasData, args.data, args.new,
                                            args.identity, within, Now,
                                            ClientIdentity)
               IN  /\ sd._data = fresh._data
                   /\ sd._identity = fresh._identity
                   /\ sd._created = fresh._created
                   /\ sd._new = fresh._new
                   /\ sd._changed = fresh._changed

\* a stored session created at 2 is read back at 5 with max_age 1: it is
\* three seconds old, and still carries its attribute and creation time
C22_Witness ==
    /\ ConstructedExpired
    /\ args.max_age = 1
    /\ ~args.new
    /\ DataGet(args.data, "created") = 2
    /\ Now - 2 > args.max_age
    /\ ~Expired(args.hasData, args.data, 10, Now)
    /\ DataGet(sd._data, "user") = 1
    /\ sd._created = 2
    /\ ~sd._new

\* C23: within one request, once forgot(request) has returned inside the
\* handler, the middleware does not call save_session for the forgotten
\* session: the invalidate of forgot is never followed by a save_session
\* in the same request unless a session was asked from the storage again
\* in between, for every starting state of the context slots and of
\* the session's changed flag.
C23_ForgottenSessionNeverSaved ==
    \A i, j \in DOMAIN calls :
        (/\ i < j
         /\ calls[i] = "invalidate"
         /\ calls[i + 1] = "clear"
         /\ calls[j] = "save_session")
        => \E k \in (i + 1)..(j - 1) :
               calls[k] \in {"get_session", "handler_get_session"}

====
